---- MODULE Spec2Model ----
(***************************************************************************)
(* Model of the MacOS automation MCP server (src/code.py).                 *)
(*                                                                         *)
(* The server is a set of synchronous tool handlers over two collaborators:*)
(* the pyautogui backend and the native screencapture utility.  The state  *)
(* is the module-level global pyautogui (None or the configured module),   *)
(* the host (platform, temporary files on disk, mouse buttons held down)   *)
(* and the record of the call in progress: the backend calls issued, the   *)
(* processes started and the value returned or the exception raised.       *)
(*                                                                         *)
(* Conventions.  A Python str that the code processes is a sequence of     *)
(* one-character strings; a literal exception message that is only raised  *)
(* is a TLA+ string.  Optional[T] is <<>> for None and <<v>> for a value.  *)
(* A float number of seconds is an integer number of time units.           *)
(***************************************************************************)
EXTENDS Integers, Sequences, FiniteSets, TLC

VARIABLES
    importable,  \* host: "ok" | "absent" | "broken": can pyautogui be imported
    platform,    \* host: sys.platform
    loaded,      \* "no" | "yes" | "failed": has the module body run
    loadError,   \* the exception the module body raised, or NoError
    pyautogui,   \* module global: <<>> for None, <<config>> for the module
    held,        \* host: the mouse buttons currently pressed down
    tmpfiles,    \* host: the temporary files that exist on disk
    pc,          \* "idle" | "returned": is a tool call's result outstanding
    request,     \* the tool call: its name and arguments
    fault,       \* what the collaborators did during the call
    calls,       \* the backend calls the call issued, in order
    procs,       \* the external commands the call ran, in order
    created,     \* the temporary files the call created
    outcome      \* the value the call returned or the exception it raised

vars == <<importable, platform, loaded, loadError, pyautogui, held, tmpfiles,
          pc, request, fault, calls, procs, created, outcome>>

-----------------------------------------------------------------------------
(* Bounds of the model. *)

MaxCoord == 1      \* screen coordinates are 0..MaxCoord
MaxDur == 1        \* durations and intervals are -MaxDur..MaxDur
MaxClicks == 2     \* click counts are -1..MaxClicks
MaxModifiers == 2  \* modifier lists have at most MaxModifiers elements
MaxRegionLen == 5  \* region lists have at most MaxRegionLen elements
MaxImageLen == 3   \* images have at most MaxImageLen bytes
MaxTmp == 2        \* names the temporary directory can hand out

-----------------------------------------------------------------------------
(* Python values. *)

None == <<>>
Some(v) == <<v>>
IsNone(o) == o = <<>>
Get(o) == o[1]

Opt(S) == {None} \cup {Some(v) : v \in S}

SeqsUpTo(S, n) == UNION {[1..m -> S] : m \in 0..n}

\* max(a, b) of Python: the first of the largest arguments.
Max(a, b) == IF b > a THEN b ELSE a

UpperChars == <<"A", "B", "C", "D", "E", "F", "G", "H", "I", "J", "K", "L", "M",
                "N", "O", "P", "Q", "R", "S", "T", "U", "V", "W", "X", "Y", "Z">>
LowerChars == <<"a", "b", "c", "d", "e", "f", "g", "h", "i", "j", "k", "l", "m",
                "n", "o", "p", "q", "r", "s", "t", "u", "v", "w", "x", "y", "z">>
DigitChars == <<"0", "1", "2", "3", "4", "5", "6", "7", "8", "9">>

IndexIn(c, table) == CHOOSE i \in 1..Len(table) : table[i] = c
IsIn(c, table) == \E i \in 1..Len(table) : table[i] = c

\* str.lower()
LowerChar(c) == IF IsIn(c, UpperChars) THEN LowerChars[IndexIn(c, UpperChars)] ELSE c
Lower(s) == [i \in 1..Len(s) |-> LowerChar(s[i])]

\* str(n) for an integer n
RECURSIVE FormatNat(_)
FormatNat(n) ==
    IF n < 10 THEN <<DigitChars[n + 1]>>
    ELSE FormatNat(n \div 10) \o <<DigitChars[(n % 10) + 1]>>
FormatInt(n) == IF n < 0 THEN <<"-">> \o FormatNat(0 - n) ELSE FormatNat(n)

\* sep.join(parts)
RECURSIVE Join(_, _)
Join(sep, parts) ==
    IF Len(parts) = 0 THEN <<>>
    ELSE IF Len(parts) = 1 THEN parts[1]
    ELSE parts[1] \o sep \o Join(sep, Tail(parts))

-----------------------------------------------------------------------------
(* Results of a call. *)

Ok(v) == [kind |-> "ok", value |-> v]
Raise(exc, msg) == [kind |-> "error", exc |-> exc, msg |-> msg]
NoError == [kind |-> "none"]
NoOutcome == [kind |-> "none"]

\* An exception raised inside the backend propagates unchanged.
BackendError(fn) == Raise("BackendError", fn)

\* What a handler did: the backend calls it issued (the last one raised when
\* the outcome is a BackendError), the commands it ran, the temporary files
\* it created and removed, the buttons it left held, and its outcome.
Effect(cs, ps, cr, fs, hd, out) ==
    [calls |-> cs, procs |-> ps, created |-> cr, tmpfiles |-> fs, held |-> hd,
     outcome |-> out]

-----------------------------------------------------------------------------
(* Module body, lines 17-28. *)

Config == [FAILSAFE |-> TRUE, PAUSE |-> "0.05"]

Init ==
    /\ importable \in {"ok", "absent", "broken"}
    /\ platform \in {"darwin", "linux"}
    /\ loaded = "no"
    /\ loadError = NoError
    /\ pyautogui = None
    /\ held = {}
    /\ tmpfiles = {}
    /\ pc = "idle"
    /\ request = [op |-> "none"]
    /\ fault = [none |-> TRUE]
    /\ calls = <<>>
    /\ procs = <<>>
    /\ created = {}
    /\ outcome = NoOutcome

\* find_spec("pyautogui") returns None when the package is absent; when it
\* is present import_module either returns the module or raises.
ModuleBody(imp) ==
    IF imp = "absent" THEN [loaded |-> "yes", pyautogui |-> None, error |-> NoError]
    ELSE IF imp = "broken"
    THEN [loaded |-> "failed", pyautogui |-> None,
          error |-> Raise("ImportError", "raised while importing pyautogui")]
    ELSE [loaded |-> "yes", pyautogui |-> Some(Config), error |-> NoError]

LoadModule ==
    /\ loaded = "no"
    /\ LET r == ModuleBody(importable) IN
        /\ loaded' = r.loaded
        /\ pyautogui' = r.pyautogui
        /\ loadError' = r.error
    /\ UNCHANGED <<importable, platform, held, tmpfiles, pc, request, fault,
                   calls, procs, created, outcome>>

-----------------------------------------------------------------------------
(* Helpers, lines 77-89. *)

ButtonNames == {<<"l", "e", "f", "t">>, <<"r", "i", "g", "h", "t">>,
                <<"m", "i", "d", "d", "l", "e">>}

\* _normalize_button: the normalized name, or the ValueError it raises.
normalize_button(button) ==
    LET normalized == Lower(button) IN
    IF normalized \notin ButtonNames
    THEN Raise("ValueError", "Button must be 'left', 'right', or 'middle'.")
    ELSE Ok(normalized)

\* _require_pyautogui: the module, or the RuntimeError it raises.
require_pyautogui(module) ==
    IF IsNone(module)
    THEN Raise("RuntimeError",
               "pyautogui is required for the MacOS automation MCP server. Install it with 'pip install pyautogui'.")
    ELSE Ok(Get(module))

-----------------------------------------------------------------------------
(* press_key, lines 161-173. *)

Pressed == <<"P", "r", "e", "s", "s", "e", "d", " ">>
PlusSep == <<" ", "+", " ">>
Dot == <<".">>

\* `if modifiers:` is true of a non-empty list only.
Truthy(modifiers) == ~IsNone(modifiers) /\ Len(Get(modifiers)) > 0

\* Faulty variant: the key is lowercased with the modifiers.
HotkeySequenceLowersKey(key, modifiers) ==
    [i \in 1..Len(modifiers) |-> Lower(modifiers[i])] \o <<Lower(key)>>

HotkeySequence(key, modifiers) ==
    [i \in 1..Len(modifiers) |-> Lower(modifiers[i])] \o <<key>>

press_key(module, hd, fs, key, modifiers, failAt) ==
    LET m == require_pyautogui(module)
        sequence == HotkeySequence(key, Get(modifiers))
        call == IF Truthy(modifiers)
                THEN [fn |-> "hotkey", args |-> sequence]
                ELSE [fn |-> "press", args |-> <<key>>]
        pressed == IF Truthy(modifiers) THEN Join(PlusSep, sequence) ELSE key
    IN  IF m.kind = "error" THEN Effect(<<>>, <<>>, {}, fs, hd, m)
        ELSE IF failAt = 1 THEN Effect(<<call>>, <<>>, {}, fs, hd, BackendError(call.fn))
        ELSE Effect(<<call>>, <<>>, {}, fs, hd, Ok(Pressed \o pressed \o Dot))

KeyNames == {<<"k">>, <<"K">>, <<"e", "n", "t", "e", "r">>}
ModifierNames == {<<"C", "T", "R", "L">>, <<"A", "l", "t">>, <<"s", "h", "i", "f", "t">>}

Apply(req, flt, e) ==
    /\ pc' = "returned"
    /\ request' = req
    /\ fault' = flt
    /\ calls' = e.calls
    /\ procs' = e.procs
    /\ created' = e.created
    /\ tmpfiles' = e.tmpfiles
    /\ held' = e.held
    /\ outcome' = e.outcome
    /\ UNCHANGED <<importable, platform, loaded, loadError, pyautogui>>

PressKey ==
    /\ loaded = "yes" /\ pc = "idle"
    /\ \E key \in KeyNames, modifiers \in Opt(SeqsUpTo(ModifierNames, MaxModifiers)),
          failAt \in 0..1 :
        Apply([op |-> "press_key", key |-> key, modifiers |-> modifiers],
              [failAt |-> failAt],
              press_key(pyautogui, held, tmpfiles, key, modifiers, failAt))

-----------------------------------------------------------------------------
(* The backend's effect on the host. *)

\* The calls of `planned` the handler issues when the failAt-th one raises
\* (failAt = 0: none raises): it stops at the first exception.
Issued(planned, failAt) ==
    IF failAt = 0 THEN planned ELSE SubSeq(planned, 1, failAt)

\* The calls among them that completed.
Completed(planned, failAt) ==
    IF failAt = 0 THEN planned ELSE SubSeq(planned, 1, failAt - 1)

\* A completed mouseDown holds its button, a completed mouseUp or click
\* (a press and a release) leaves it released.
RECURSIVE HeldAfter(_, _)
HeldAfter(hd, done) ==
    IF Len(done) = 0 THEN hd
    ELSE LET c == Head(done) IN
         HeldAfter(IF c.fn = "mouseDown" THEN hd \cup {c.button}
                   ELSE IF c.fn \in {"mouseUp", "click"} THEN hd \ {c.button}
                   ELSE hd,
                   Tail(done))

\* A handler that only issues `planned`, in order, and returns `msg`.
Run(hd, fs, planned, failAt, msg) ==
    Effect(Issued(planned, failAt), <<>>, {}, fs,
           HeldAfter(hd, Completed(planned, failAt)),
           IF failAt = 0 THEN Ok(msg) ELSE BackendError(planned[failAt].fn))

\* Faulty variant: the value is forwarded unclamped.
ClampSecondsIdentity(v) == v

\* max(0.0, duration) and max(0.0, interval), lines 130, 153, 155, 181, 202.
ClampSeconds(v) == Max(0, v)
\* max(1, clicks), line 152.
ClampClicks(c) == Max(1, c)

-----------------------------------------------------------------------------
(* move_mouse, lines 125-131. *)

MovedTo == <<"M", "o", "u", "s", "e", " ", "m", "o", "v", "e", "d", " ", "t", "o", " ", "(">>
CommaSp == <<",", " ">>
ClosePar == <<")">>

Point(x, y) == <<"(">> \o FormatInt(x) \o CommaSp \o FormatInt(y) \o ClosePar

move_mouse(module, hd, fs, x, y, duration, failAt) ==
    LET m == require_pyautogui(module)
        planned == <<[fn |-> "moveTo", args |-> <<x, y>>,
                      duration |-> Some(ClampSeconds(duration))]>>
    IN  IF m.kind = "error" THEN Effect(<<>>, <<>>, {}, fs, hd, m)
        ELSE Run(hd, fs, planned, failAt,
                 MovedTo \o FormatInt(x) \o CommaSp \o FormatInt(y) \o ClosePar \o Dot)

-----------------------------------------------------------------------------
(* click, lines 134-158. *)

Clicked == <<"C", "l", "i", "c", "k", "e", "d", " ">>
ButtonSp == <<" ", "b", "u", "t", "t", "o", "n", " ">>
TimesAt == <<" ", "t", "i", "m", "e", "(", "s", ")", " ", "a", "t", " ">>
CurrentPosition == <<"c", "u", "r", "r", "e", "n", "t", " ", "p", "o", "s", "i", "t", "i", "o", "n">>

click(module, hd, fs, x, y, button, clicks, interval, duration, failAt) ==
    LET m == require_pyautogui(module)
        b == normalize_button(button)
        planned == <<[fn |-> "click", x |-> x, y |-> y,
                      clicks |-> ClampClicks(clicks),
                      interval |-> ClampSeconds(interval),
                      button |-> b.value,
                      duration |-> ClampSeconds(duration)]>>
        location == IF ~IsNone(x) /\ ~IsNone(y) THEN Point(Get(x), Get(y))
                    ELSE CurrentPosition
    IN  IF m.kind = "error" THEN Effect(<<>>, <<>>, {}, fs, hd, m)
        ELSE IF b.kind = "error" THEN Effect(<<>>, <<>>, {}, fs, hd, b)
        ELSE Run(hd, fs, planned, failAt,
                 Clicked \o button \o ButtonSp \o FormatInt(clicks) \o TimesAt
                     \o location \o Dot)

-----------------------------------------------------------------------------
(* type_text, lines 176-184. *)

Enter == <<"e", "n", "t", "e", "r">>

type_text(module, hd, fs, text, interval, press_enter, failAt) ==
    LET m == require_pyautogui(module)
        planned == <<[fn |-> "write", args |-> <<text>>,
                      interval |-> ClampSeconds(interval)]>>
                   \o (IF press_enter THEN <<[fn |-> "press", args |-> <<Enter>>]>>
                       ELSE <<>>)
    IN  IF m.kind = "error" THEN Effect(<<>>, <<>>, {}, fs, hd, m)
        ELSE Run(hd, fs, planned, failAt,
                 IF ~press_enter THEN "Typed text successfully."
                 ELSE "Typed text and pressed Enter successfully.")

-----------------------------------------------------------------------------
(* drag_and_drop, lines 187-206. *)

Dragged == <<"D", "r", "a", "g", "g", "e", "d", " ", "f", "r", "o", "m", " ">>
ToSp == <<" ", "t", "o", " ">>
UsingThe == <<" ", "u", "s", "i", "n", "g", " ", "t", "h", "e", " ">>
ButtonDot == <<" ", "b", "u", "t", "t", "o", "n", ".">>

\* Faulty variant: the button is released before the move to the end point.
DragPlanReleasesFirst(start_x, start_y, end_x, end_y, duration, normalized_button) ==
    << [fn |-> "moveTo", args |-> <<start_x, start_y>>, duration |-> None],
       [fn |-> "mouseDown", button |-> normalized_button],
       [fn |-> "mouseUp", button |-> normalized_button],
       [fn |-> "moveTo", args |-> <<end_x, end_y>>,
        duration |-> Some(ClampSeconds(duration))] >>

DragPlan(start_x, start_y, end_x, end_y, duration, normalized_button) ==
    << [fn |-> "moveTo", args |-> <<start_x, start_y>>, duration |-> None],
       [fn |-> "mouseDown", button |-> normalized_button],
       [fn |-> "moveTo", args |-> <<end_x, end_y>>,
        duration |-> Some(ClampSeconds(duration))],
       [fn |-> "mouseUp", button |-> normalized_button] >>

\* Faulty variant: the button is normalized where it is first used, in the mouseDown
\* call, after the move to the start point.
drag_and_drop_NormalizesLate(module, hd, fs, start_x, start_y, end_x, end_y, duration, button, failAt) ==
    LET b == normalize_button(button)
        m == require_pyautogui(module)
        first == [fn |-> "moveTo", args |-> <<start_x, start_y>>, duration |-> None]
    IN  IF m.kind = "error" THEN Effect(<<>>, <<>>, {}, fs, hd, m)
        ELSE IF failAt = 1 THEN Effect(<<first>>, <<>>, {}, fs, hd, BackendError("moveTo"))
        ELSE IF b.kind = "error" THEN Effect(<<first>>, <<>>, {}, fs, hd, b)
        ELSE Run(hd, fs,
                 DragPlan(start_x, start_y, end_x, end_y, duration, b.value), failAt,
                 Dragged \o Point(start_x, start_y) \o ToSp \o Point(end_x, end_y)
                     \o UsingThe \o b.value \o ButtonDot)

\* Faulty variant: the button is released in a finally block once it has been pressed.
drag_and_drop_ReleasesOnFailure(module, hd, fs, start_x, start_y, end_x, end_y, duration, button, failAt) ==
    LET b == normalize_button(button)
        m == require_pyautogui(module)
        plan == DragPlan(start_x, start_y, end_x, end_y, duration, b.value)
    IN  IF b.kind = "error" THEN Effect(<<>>, <<>>, {}, fs, hd, b)
        ELSE IF m.kind = "error" THEN Effect(<<>>, <<>>, {}, fs, hd, m)
        ELSE IF failAt = 3
        THEN Effect(Issued(plan, 3) \o <<plan[4]>>, <<>>, {}, fs, hd \ {b.value},
                    BackendError("moveTo"))
        ELSE Run(hd, fs, plan, failAt,
                 Dragged \o Point(start_x, start_y) \o ToSp \o Point(end_x, end_y)
                     \o UsingThe \o b.value \o ButtonDot)

drag_and_drop(module, hd, fs, start_x, start_y, end_x, end_y, duration, button, failAt) ==
    LET b == normalize_button(button)
        m == require_pyautogui(module)
    IN  IF b.kind = "error" THEN Effect(<<>>, <<>>, {}, fs, hd, b)
        ELSE IF m.kind = "error" THEN Effect(<<>>, <<>>, {}, fs, hd, m)
        ELSE Run(hd, fs,
                 DragPlan(start_x, start_y, end_x, end_y, duration, b.value), failAt,
                 Dragged \o Point(start_x, start_y) \o ToSp \o Point(end_x, end_y)
                     \o UsingThe \o b.value \o ButtonDot)

-----------------------------------------------------------------------------
(* int(value), line 105. *)

IsSpace(c) == c \in {" ", "\t", "\n"}

\* str.strip()
RECURSIVE LStrip(_)
LStrip(s) == IF Len(s) > 0 /\ IsSpace(s[1]) THEN LStrip(Tail(s)) ELSE s
RECURSIVE RStrip(_)
RStrip(s) ==
    IF Len(s) > 0 /\ IsSpace(s[Len(s)]) THEN RStrip(SubSeq(s, 1, Len(s) - 1)) ELSE s
Strip(s) == RStrip(LStrip(s))

RECURSIVE ParseNat(_)
ParseNat(ds) ==
    IF Len(ds) = 0 THEN 0
    ELSE 10 * ParseNat(SubSeq(ds, 1, Len(ds) - 1)) + (IndexIn(ds[Len(ds)], DigitChars) - 1)

InvalidLiteral == Raise("ValueError", "invalid literal for int() with base 10")

\* int(s) of a str: surrounding whitespace, an optional sign, decimal digits.
ParseInt(s) ==
    LET t == Strip(s)
        signed == Len(t) > 0 /\ t[1] \in {"+", "-"}
        ds == IF signed THEN Tail(t) ELSE t
    IN  IF Len(ds) = 0 \/ \E i \in 1..Len(ds) : ~IsIn(ds[i], DigitChars)
        THEN InvalidLiteral
        ELSE Ok(IF signed /\ t[1] = "-" THEN 0 - ParseNat(ds) ELSE ParseNat(ds))

\* A region element is an int, [int |-> n], or a str, [str |-> s].
IntOf(value) == IF "int" \in DOMAIN value THEN Ok(value.int) ELSE ParseInt(value.str)

\* tuple(int(value) for value in region): the tuple, or the first ValueError.
RECURSIVE IntTuple(_)
IntTuple(region) ==
    IF Len(region) = 0 THEN Ok(<<>>)
    ELSE LET h == IntOf(Head(region)) IN
         IF h.kind = "error" THEN h
         ELSE LET t == IntTuple(Tail(region)) IN
              IF t.kind = "error" THEN t ELSE Ok(<<h.value>> \o t.value)

-----------------------------------------------------------------------------
(* base64.b64encode, line 121. *)

B64Chars == <<"A", "B", "C", "D", "E", "F", "G", "H", "I", "J", "K", "L", "M",
              "N", "O", "P", "Q", "R", "S", "T", "U", "V", "W", "X", "Y", "Z",
              "a", "b", "c", "d", "e", "f", "g", "h", "i", "j", "k", "l", "m",
              "n", "o", "p", "q", "r", "s", "t", "u", "v", "w", "x", "y", "z",
              "0", "1", "2", "3", "4", "5", "6", "7", "8", "9", "+", "/">>

RECURSIVE B64Encode(_)
B64Encode(b) ==
    IF Len(b) = 0 THEN <<>>
    ELSE IF Len(b) = 1
    THEN <<B64Chars[(b[1] \div 4) + 1], B64Chars[((b[1] % 4) * 16) + 1], "=", "=">>
    ELSE IF Len(b) = 2
    THEN <<B64Chars[(b[1] \div 4) + 1],
           B64Chars[((b[1] % 4) * 16) + (b[2] \div 16) + 1],
           B64Chars[((b[2] % 16) * 4) + 1], "=">>
    ELSE <<B64Chars[(b[1] \div 4) + 1],
           B64Chars[((b[1] % 4) * 16) + (b[2] \div 16) + 1],
           B64Chars[((b[2] % 16) * 4) + (b[3] \div 64) + 1],
           B64Chars[(b[3] % 64) + 1]>> \o B64Encode(SubSeq(b, 4, Len(b)))

DataUrlPrefix == <<"d", "a", "t", "a", ":", "i", "m", "a", "g", "e", "/", "p", "n",
                   "g", ";", "b", "a", "s", "e", "6", "4", ",">>

DataUrl(image_bytes) == DataUrlPrefix \o B64Encode(image_bytes)

-----------------------------------------------------------------------------
(* _capture_screenshot_without_pyautogui, lines 31-74. *)

Screencapture == <<"s", "c", "r", "e", "e", "n", "c", "a", "p", "t", "u", "r", "e">>

\* f"-R{region[0]},{region[1]},{region[2]},{region[3]}"
RegionFlag(region) ==
    <<"-", "R">> \o FormatInt(region[1]) \o <<",">> \o FormatInt(region[2])
        \o <<",">> \o FormatInt(region[3]) \o <<",">> \o FormatInt(region[4])

\* Faulty variant: the region flag is left out of the command.
CommandWithoutRegion(region, temp_path) ==
    <<Screencapture, <<"-", "x">>, temp_path>>

Command(region, temp_path) ==
    <<Screencapture, <<"-", "x">>>>
        \o (IF ~IsNone(region) THEN <<RegionFlag(Get(region))>> ELSE <<>>)
        \o <<temp_path>>

\* The name NamedTemporaryFile(suffix=".png") gives its n-th candidate.
TempPath(n) == <<"/", "t", "m", "p", "/", "t", "m", "p">> \o FormatInt(n)
                   \o <<".", "p", "n", "g">>

\* Faulty variant: the file is not unlinked.
CleanupSkipped(fs, temp_path) == fs

\* The finally block: unlink the file; a file already gone is ignored.
Cleanup(fs, temp_path) == fs \ {temp_path}

\* env.tmp: the temporary name; env.run: "missing" (FileNotFoundError),
\* "failed" (CalledProcessError, with env.stderr) or "ok"; env.file: what has
\* become of the temporary file when the command is over: "present" (holding
\* env.image) or "vanished" (removed by another process: read_bytes and
\* unlink then raise FileNotFoundError).
capture_screenshot_without_pyautogui(plat, hd, fs, region, env) ==
    LET temp_path == TempPath(env.tmp)
        command == Command(region, temp_path)
        proc == [argv |-> command, result |-> env.run]
        afterRun == IF env.file = "vanished" THEN fs ELSE fs \cup {temp_path}
        stderr_output == Strip(env.stderr)
        left == Cleanup(afterRun, temp_path)
    IN  IF plat # "darwin"
        THEN Effect(<<>>, <<>>, {}, fs, hd,
                    Raise("RuntimeError",
                          "pyautogui is required for screenshots on non-macOS platforms."))
        ELSE IF env.run = "missing"
        THEN Effect(<<>>, <<proc>>, {temp_path}, left, hd,
                    Raise("RuntimeError",
                          "The 'screencapture' command is required for screenshots when PyAutoGUI is unavailable."))
        ELSE IF env.run = "failed"
        THEN Effect(<<>>, <<proc>>, {temp_path}, left, hd,
                    [kind |-> "error", exc |-> "RuntimeError",
                     msg |-> "The 'screencapture' command failed.",
                     details |-> stderr_output])
        ELSE IF env.file = "vanished"
        THEN Effect(<<>>, <<proc>>, {temp_path}, left, hd,
                    Raise("FileNotFoundError", "read_bytes"))
        ELSE Effect(<<>>, <<proc>>, {temp_path}, left, hd, Ok(env.image))

-----------------------------------------------------------------------------
(* get_screenshot, lines 92-122. *)

\* Faulty variant: only negative widths and heights are rejected.
ValidateRegionAllowsZero(region) ==
    IF ~IsNone(region) /\ Len(Get(region)) # 4
    THEN Raise("ValueError",
               "Region must contain exactly four integers: x, y, width, height.")
    ELSE IF IsNone(region) THEN Ok(None)
    ELSE LET t == IntTuple(Get(region)) IN
         IF t.kind = "error" THEN t
         ELSE IF t.value[3] < 0 \/ t.value[4] < 0
         THEN Raise("ValueError", "Width and height must be positive values.")
         ELSE Ok(Some(<<t.value[1], t.value[2], t.value[3], t.value[4]>>))

\* Lines 101-111: the region tuple handed to the capture step, or the
\* ValueError raised.
ValidateRegion(region) ==
    IF ~IsNone(region) /\ Len(Get(region)) # 4
    THEN Raise("ValueError",
               "Region must contain exactly four integers: x, y, width, height.")
    ELSE IF IsNone(region) THEN Ok(None)
    ELSE LET t == IntTuple(Get(region)) IN
         IF t.kind = "error" THEN t
         ELSE IF t.value[3] <= 0 \/ t.value[4] <= 0
         THEN Raise("ValueError", "Width and height must be positive values.")
         ELSE Ok(Some(<<t.value[1], t.value[2], t.value[3], t.value[4]>>))

\* Lines 113-119: the capture step.
Capture(module, plat, hd, fs, region_tuple, env) ==
    IF ~IsNone(module)
    THEN LET call == [fn |-> "screenshot", region |-> region_tuple] IN
         IF env.failAt = 1
         THEN Effect(<<call>>, <<>>, {}, fs, hd, BackendError("screenshot"))
         ELSE Effect(<<call>>, <<>>, {}, fs, hd, Ok(env.image))
    ELSE capture_screenshot_without_pyautogui(plat, hd, fs, region_tuple, env)

get_screenshot(module, plat, hd, fs, region, env) ==
    LET v == ValidateRegion(region) IN
    IF v.kind = "error" THEN Effect(<<>>, <<>>, {}, fs, hd, v)
    ELSE LET c == Capture(module, plat, hd, fs, v.value, env) IN
         IF c.outcome.kind = "error" THEN c
         ELSE [c EXCEPT !.outcome = Ok(DataUrl(c.outcome.value))]

-----------------------------------------------------------------------------
(* The tool calls the runtime dispatches. *)

Coords == 0..MaxCoord
Seconds == (0 - MaxDur)..MaxDur
ClickCounts == (0 - 1)..MaxClicks
Texts == {<<>>, <<"H", "i">>}
Buttons == {<<"l", "e", "f", "t">>, <<"R", "I", "G", "H", "T">>,
            <<"M", "i", "d", "d", "l", "e">>, <<"b", "a", "d">>, <<>>}

MoveMouse ==
    /\ loaded = "yes" /\ pc = "idle"
    /\ \E x \in Coords, y \in Coords, duration \in Seconds, failAt \in 0..1 :
        Apply([op |-> "move_mouse", x |-> x, y |-> y, duration |-> duration],
              [failAt |-> failAt],
              move_mouse(pyautogui, held, tmpfiles, x, y, duration, failAt))

Click ==
    /\ loaded = "yes" /\ pc = "idle"
    /\ \E x \in Opt(Coords), y \in Opt(Coords), button \in Buttons,
          clicks \in ClickCounts, interval \in Seconds, duration \in Seconds,
          failAt \in 0..1 :
        Apply([op |-> "click", x |-> x, y |-> y, button |-> button,
               clicks |-> clicks, interval |-> interval, duration |-> duration],
              [failAt |-> failAt],
              click(pyautogui, held, tmpfiles, x, y, button, clicks, interval,
                    duration, failAt))

TypeText ==
    /\ loaded = "yes" /\ pc = "idle"
    /\ \E text \in Texts, interval \in Seconds, press_enter \in BOOLEAN,
          failAt \in 0..2 :
        /\ failAt <= (IF press_enter THEN 2 ELSE 1)
        /\ Apply([op |-> "type_text", text |-> text, interval |-> interval,
                  press_enter |-> press_enter],
                 [failAt |-> failAt],
                 type_text(pyautogui, held, tmpfiles, text, interval, press_enter,
                           failAt))

DragAndDrop ==
    /\ loaded = "yes" /\ pc = "idle"
    /\ \E start_x \in Coords, start_y \in Coords, end_x \in Coords, end_y \in Coords,
          duration \in Seconds, button \in Buttons, failAt \in 0..4 :
        Apply([op |-> "drag_and_drop", start_x |-> start_x, start_y |-> start_y,
               end_x |-> end_x, end_y |-> end_y, duration |-> duration,
               button |-> button],
              [failAt |-> failAt],
              drag_and_drop(pyautogui, held, tmpfiles, start_x, start_y, end_x,
                            end_y, duration, button, failAt))

RegionValues == {[int |-> 0 - 1], [int |-> 0], [int |-> 2],
                 [str |-> <<"1", "0">>], [str |-> <<"x">>]}
Regions == Opt(SeqsUpTo(RegionValues, MaxRegionLen))
ByteValues == {0, 137, 255}
Images == SeqsUpTo(ByteValues, MaxImageLen)
Stderrs == {<<>>, <<" ">>, <<"n", "o", "\n">>}
NoImage == <<>>
NoStderr == <<>>

\* What the collaborators can do during a get_screenshot call.  Only the
\* choices the call reads are drawn; the others are fixed.
Envs(module, plat, fs) ==
    IF ~IsNone(module)
    THEN {[failAt |-> 0, image |-> i] : i \in Images}
         \cup {[failAt |-> 1, image |-> NoImage]}
    ELSE IF plat # "darwin" THEN {[platform |-> plat]}
    ELSE UNION {
        {[tmp |-> n, run |-> "missing", file |-> f, stderr |-> NoStderr,
          image |-> NoImage] : f \in {"present", "vanished"}}
        \cup {[tmp |-> n, run |-> "failed", file |-> f, stderr |-> e,
               image |-> NoImage] : f \in {"present", "vanished"}, e \in Stderrs}
        \cup {[tmp |-> n, run |-> "ok", file |-> "present", stderr |-> NoStderr,
               image |-> i] : i \in Images}
        \cup {[tmp |-> n, run |-> "ok", file |-> "vanished", stderr |-> NoStderr,
               image |-> NoImage]}
        : n \in {n \in 1..MaxTmp : TempPath(n) \notin fs}}

GetScreenshot ==
    /\ loaded = "yes" /\ pc = "idle"
    /\ \E region \in Regions :
        LET v == ValidateRegion(region) IN
        IF v.kind = "error"
        THEN Apply([op |-> "get_screenshot", region |-> region], [none |-> TRUE],
                   get_screenshot(pyautogui, platform, held, tmpfiles, region,
                                  [none |-> TRUE]))
        ELSE \E env \in Envs(pyautogui, platform, tmpfiles) :
                Apply([op |-> "get_screenshot", region |-> region], env,
                      get_screenshot(pyautogui, platform, held, tmpfiles, region, env))

\* The hosting runtime hands the result to the caller; the call is over.
Reply ==
    /\ pc = "returned"
    /\ pc' = "idle"
    /\ request' = [op |-> "none"]
    /\ fault' = [none |-> TRUE]
    /\ calls' = <<>>
    /\ procs' = <<>>
    /\ created' = {}
    /\ outcome' = NoOutcome
    /\ UNCHANGED <<importable, platform, loaded, loadError, pyautogui, held, tmpfiles>>

Next ==
    \/ LoadModule
    \/ GetScreenshot
    \/ PressKey
    \/ MoveMouse
    \/ Click
    \/ TypeText
    \/ DragAndDrop
    \/ Reply

Spec == Init /\ [][Next]_vars

-----------------------------------------------------------------------------
(* Properties. *)

Returned(op) == pc = "returned" /\ request.op = op

InvalidArgument(o) == o.kind = "error" /\ o.exc = "ValueError"
InvalidButton ==
    Raise("ValueError", "Button must be 'left', 'right', or 'middle'.")
Unavailable(o) ==
    o = Raise("RuntimeError",
              "pyautogui is required for screenshots on non-macOS platforms.")
BackendMissing(o) ==
    o = Raise("RuntimeError",
              "The 'screencapture' command is required for screenshots when PyAutoGUI is unavailable.")
BackendFailed(o) ==
    /\ o.kind = "error" /\ o.exc = "RuntimeError"
    /\ o.msg = "The 'screencapture' command failed."

NonNegative(v) == IF v < 0 THEN 0 ELSE v
AtLeastOne(c) == IF c < 1 THEN 1 ELSE c

\* C1: a drag_and_drop call that runs to completion issued exactly moveTo(start)
\* without a duration, mouseDown(b), moveTo(end, duration=max(0, duration)),
\* mouseUp(b), with b the lowercased button, and nothing else; and in every
\* drag_and_drop call each mouseUp comes after a mouseDown of the same button.
DragSequence ==
    Returned("drag_and_drop") =>
        /\ outcome.kind = "ok" =>
            LET b == Lower(request.button) IN
            /\ b \in ButtonNames
            /\ calls = << [fn |-> "moveTo",
                           args |-> <<request.start_x, request.start_y>>,
                           duration |-> None],
                          [fn |-> "mouseDown", button |-> b],
                          [fn |-> "moveTo",
                           args |-> <<request.end_x, request.end_y>>,
                           duration |-> Some(NonNegative(request.duration))],
                          [fn |-> "mouseUp", button |-> b] >>
            /\ procs = <<>>
        /\ \A i \in 1..Len(calls) :
            calls[i].fn = "mouseUp" =>
                \E j \in 1..(i - 1) :
                    calls[j].fn = "mouseDown" /\ calls[j].button = calls[i].button

DragSequenceWitness ==
    /\ Returned("drag_and_drop")
    /\ outcome.kind = "ok"
    /\ request.button = <<"M", "i", "d", "d", "l", "e">>
    /\ request.duration < 0
    /\ Len(calls) = 4

\* C2: a get_screenshot, click or drag_and_drop call that fails with
\* InvalidArgument (ValueError) has issued no backend call, started no
\* capture process and created no temporary file.
NoBackendBeforeInvalidArgument ==
    (/\ pc = "returned"
     /\ request.op \in {"get_screenshot", "click", "drag_and_drop"}
     /\ InvalidArgument(outcome))
        => calls = <<>> /\ procs = <<>> /\ created = {}

NoBackendBeforeInvalidArgumentWitness ==
    /\ Returned("get_screenshot")
    /\ ~IsNone(pyautogui)
    /\ outcome = Raise("ValueError", "Width and height must be positive values.")
    /\ calls = <<>>

\* C3: no temporary file outlives the call that created it: the temporary
\* directory holds none of the adapter's files between calls or once a call
\* has returned or raised, whichever way the fallback capture ended.
TempFilesRemoved ==
    /\ tmpfiles = {}
    /\ pc = "returned" => created \cap tmpfiles = {}

TempFilesRemovedWitness ==
    /\ Returned("get_screenshot")
    /\ created # {}
    /\ BackendFailed(outcome)
    /\ fault.file = "present"
    /\ tmpfiles = {}

\* C4: each duration or interval a call forwards is max(0, v) of the caller's
\* value v, the click count is max(1, clicks), and no forwarded duration or
\* interval is negative, no forwarded click count below 1.
ClampForwarded ==
    /\ Returned("move_mouse") =>
        \A i \in 1..Len(calls) :
            calls[i].duration = Some(NonNegative(request.duration))
    /\ Returned("click") =>
        \A i \in 1..Len(calls) :
            /\ calls[i].duration = NonNegative(request.duration)
            /\ calls[i].interval = NonNegative(request.interval)
            /\ calls[i].clicks = AtLeastOne(request.clicks)
            /\ calls[i].clicks >= 1
    /\ Returned("type_text") =>
        \A i \in 1..Len(calls) :
            calls[i].fn = "write" => calls[i].interval = NonNegative(request.interval)
    /\ Returned("drag_and_drop") =>
        \A i \in 1..Len(calls) :
            (calls[i].fn = "moveTo" /\ ~IsNone(calls[i].duration)) =>
                calls[i].duration = Some(NonNegative(request.duration))
    /\ \A i \in 1..Len(calls) :
        /\ "interval" \in DOMAIN calls[i] => calls[i].interval >= 0
        /\ ("duration" \in DOMAIN calls[i] /\ calls[i].fn = "click") =>
            calls[i].duration >= 0
        /\ ("duration" \in DOMAIN calls[i] /\ calls[i].fn = "moveTo"
                /\ ~IsNone(calls[i].duration)) => Get(calls[i].duration) >= 0

ClampForwardedWitness ==
    /\ Returned("click")
    /\ request.clicks < 1 /\ request.interval < 0 /\ request.duration > 0
    /\ Len(calls) = 1
    /\ calls[1].clicks = 1 /\ calls[1].interval = 0
    /\ calls[1].duration = request.duration

\* C5: with a region (of integers or integer literals, as the parameter is
\* declared) get_screenshot reaches the capture step exactly when the region
\* has four elements and, converted to integers, width > 0 and height > 0, and
\* the capture step then receives (x, y, width, height) as integers in the
\* caller's order; any other element count fails with "Region must contain
\* exactly four integers", a non-positive width or height with InvalidArgument;
\* without a region the capture step receives none.
Integral(region) == \A i \in 1..Len(region) : IntOf(region[i]).kind = "ok"
AsInt(value) == IntOf(value).value
ReachedCapture(region_tuple) ==
    /\ ~InvalidArgument(outcome)
    /\ ~IsNone(pyautogui) => calls = <<[fn |-> "screenshot", region |-> region_tuple]>>
    /\ (IsNone(pyautogui) /\ platform = "darwin") =>
        /\ Len(procs) = 1
        /\ \/ IsNone(region_tuple) /\ Len(procs[1].argv) = 3
           \/ /\ ~IsNone(region_tuple) /\ Len(procs[1].argv) = 4
              /\ procs[1].argv[3] = RegionFlag(Get(region_tuple))
    /\ (IsNone(pyautogui) /\ platform # "darwin") => Unavailable(outcome)

RegionValidation ==
    Returned("get_screenshot") =>
        LET r == request.region IN
        IF IsNone(r) THEN ReachedCapture(None)
        ELSE IF Len(Get(r)) # 4
        THEN /\ outcome = Raise("ValueError",
                    "Region must contain exactly four integers: x, y, width, height.")
             /\ calls = <<>> /\ procs = <<>>
        ELSE Integral(Get(r)) =>
            LET x == AsInt(Get(r)[1])
                y == AsInt(Get(r)[2])
                width == AsInt(Get(r)[3])
                height == AsInt(Get(r)[4])
            IN  IF width > 0 /\ height > 0
                THEN ReachedCapture(Some(<<x, y, width, height>>))
                ELSE InvalidArgument(outcome) /\ calls = <<>> /\ procs = <<>>

RegionValidationWitness ==
    /\ Returned("get_screenshot")
    /\ request.region = Some(<<[int |-> 0 - 1], [int |-> 0], [str |-> <<"1", "0">>],
                               [int |-> 2]>>)
    /\ calls = <<[fn |-> "screenshot", region |-> Some(<<0 - 1, 0, 10, 2>>)]>>
    /\ outcome.kind = "ok"

\* C6 (as claimed): click and drag_and_drop report every button name other than
\* left, right and middle (in any case) as InvalidArgument, with the message
\* "Button must be 'left', 'right', or 'middle'.", whether or not the backend
\* is available.
InvalidButtonIsInvalidArgument ==
    (/\ pc = "returned"
     /\ request.op \in {"click", "drag_and_drop"}
     /\ Lower(request.button) \notin ButtonNames)
        => outcome = InvalidButton

\* C7 (as claimed): with the backend unavailable every get_screenshot call
\* takes the fallback path: Unavailable off macOS, without running the
\* utility; on macOS one run of screencapture -x [-R<x>,<y>,<w>,<h>] <path>,
\* then BackendMissing if the binary is absent, BackendFailed if it exits
\* non-zero and the file's bytes as a data URL otherwise.  With the backend
\* available the utility is never run.
ExpectedArgv(region_tuple, path) ==
    IF IsNone(region_tuple) THEN <<Screencapture, <<"-", "x">>, path>>
    ELSE <<Screencapture, <<"-", "x">>, RegionFlag(Get(region_tuple)), path>>

RanUtilityOnce ==
    /\ Len(procs) = 1
    /\ Cardinality(created) = 1
    /\ \A path \in created :
        procs[1].argv = ExpectedArgv(ValidateRegion(request.region).value, path)

FallbackOutcomeAsClaimed ==
    Returned("get_screenshot") =>
        /\ ~IsNone(pyautogui) => procs = <<>>
        /\ IsNone(pyautogui) =>
            IF platform # "darwin" THEN Unavailable(outcome) /\ procs = <<>>
            ELSE /\ ValidateRegion(request.region).kind = "ok"
                 /\ RanUtilityOnce
                 /\ procs[1].result = "missing" => BackendMissing(outcome)
                 /\ procs[1].result = "failed" => BackendFailed(outcome)
                 /\ procs[1].result = "ok" => outcome.kind = "ok"

\* Base64 decoding, to read a data URL back.
B64Index(c) == IndexIn(c, B64Chars) - 1
RECURSIVE B64Decode(_)
B64Decode(cs) ==
    IF Len(cs) = 0 THEN <<>>
    ELSE LET a == B64Index(cs[1])
             b == B64Index(cs[2])
         IN  IF cs[3] = "=" THEN <<(a * 4) + (b \div 16)>>
             ELSE LET c == B64Index(cs[3]) IN
                  IF cs[4] = "="
                  THEN <<(a * 4) + (b \div 16), ((b % 16) * 16) + (c \div 4)>>
                  ELSE <<(a * 4) + (b \div 16), ((b % 16) * 16) + (c \div 4),
                         ((c % 4) * 64) + B64Index(cs[4])>>
                       \o B64Decode(SubSeq(cs, 5, Len(cs)))

IsDataUrlOf(value, image_bytes) ==
    /\ Len(value) >= Len(DataUrlPrefix)
    /\ SubSeq(value, 1, Len(DataUrlPrefix)) = DataUrlPrefix
    /\ (Len(value) - Len(DataUrlPrefix)) % 4 = 0
    /\ B64Decode(SubSeq(value, Len(DataUrlPrefix) + 1, Len(value))) = image_bytes

\* C7 (amended): with the backend unavailable a get_screenshot call whose
\* region is absent or valid takes the fallback path: Unavailable off macOS,
\* without running the utility; on macOS one run of
\* screencapture -x [-R<x>,<y>,<w>,<h>] <path>, then BackendMissing if the
\* binary is absent, BackendFailed if it exits non-zero, and otherwise the
\* file's bytes as a data URL if the file can be read and the read's error if
\* it cannot.  With the backend available the utility is never run.
FallbackOutcome ==
    Returned("get_screenshot") =>
        /\ ~IsNone(pyautogui) => procs = <<>>
        /\ (IsNone(pyautogui) /\ ValidateRegion(request.region).kind = "ok") =>
            IF platform # "darwin" THEN Unavailable(outcome) /\ procs = <<>>
            ELSE /\ RanUtilityOnce
                 /\ procs[1].result = "missing" => BackendMissing(outcome)
                 /\ procs[1].result = "failed" => BackendFailed(outcome)
                 /\ (procs[1].result = "ok" /\ fault.file = "present") =>
                        /\ outcome.kind = "ok"
                        /\ IsDataUrlOf(outcome.value, fault.image)
                 /\ (procs[1].result = "ok" /\ fault.file = "vanished") =>
                        outcome = Raise("FileNotFoundError", "read_bytes")

FallbackOutcomeWitness ==
    /\ Returned("get_screenshot")
    /\ IsNone(pyautogui) /\ platform = "darwin"
    /\ ~IsNone(request.region)
    /\ Len(procs) = 1 /\ Len(procs[1].argv) = 4
    /\ procs[1].result = "ok"
    /\ outcome.kind = "ok"
    /\ Len(fault.image) = 2

\* C8: a successful press_key call issued exactly one backend call: with a
\* non-empty modifiers list, hotkey(modifiers lowercased, in order, then the
\* key as given); otherwise press(key); and it returned "Pressed ", that
\* sequence joined by " + ", and a full stop.
PressKeyOneCall ==
    (Returned("press_key") /\ outcome.kind = "ok") =>
        LET mods == IF IsNone(request.modifiers) THEN <<>> ELSE Get(request.modifiers)
            n == Len(mods)
            expected == [i \in 1..(n + 1) |->
                            IF i <= n THEN Lower(mods[i]) ELSE request.key]
        IN  /\ Len(calls) = 1
            /\ n > 0 => calls[1] = [fn |-> "hotkey", args |-> expected]
            /\ n = 0 => calls[1] = [fn |-> "press", args |-> <<request.key>>]
            /\ outcome.value = Pressed \o Join(PlusSep, expected) \o <<".">>

PressKeyOneCallWitness ==
    /\ Returned("press_key")
    /\ outcome.kind = "ok"
    /\ request.key = <<"K">>
    /\ request.modifiers = Some(<< <<"C", "T", "R", "L">>, <<"A", "l", "t">> >>)
    /\ calls = <<[fn |-> "hotkey",
                  args |-> << <<"c", "t", "r", "l">>, <<"a", "l", "t">>, <<"K">> >>]>>

\* C9 (as claimed): when pyautogui cannot be imported while the module is
\* loaded, loading fails with an ImportError that says pyautogui is required
\* and gives the hint 'pip install pyautogui'.
LoadFailsWithHint ==
    (loaded # "no" /\ importable # "ok") =>
        /\ loaded = "failed"
        /\ loadError.kind = "error"
        /\ loadError.exc = "ImportError"
        /\ loadError.msg = "pyautogui is required for the MacOS automation MCP server. Install it with 'pip install pyautogui'."

\* C10: when a backend call of drag_and_drop raises before mouseUp, the error
\* propagates unchanged and no mouseUp is issued; when it is the move to the
\* end point that raises, after mouseDown, the button is left held down.
DragLeavesButtonHeld ==
    (/\ Returned("drag_and_drop")
     /\ ~IsNone(pyautogui)
     /\ Lower(request.button) \in ButtonNames
     /\ fault.failAt \in 1..3)
        => /\ \A i \in 1..Len(calls) : calls[i].fn # "mouseUp"
           /\ Len(calls) = fault.failAt
           /\ outcome = BackendError(calls[fault.failAt].fn)
           /\ fault.failAt = 3 =>
                /\ calls[2] = [fn |-> "mouseDown", button |-> Lower(request.button)]
                /\ Lower(request.button) \in held

DragLeavesButtonHeldWitness ==
    /\ Returned("drag_and_drop")
    /\ fault.failAt = 3
    /\ outcome = BackendError("moveTo")
    /\ Len(calls) = 3
    /\ held = {<<"r", "i", "g", "h", "t">>}
    /\ request.button = <<"R", "I", "G", "H", "T">>

====
